---- MODULE Spec2Model ----
(***************************************************************************)
(* Model of the customer-service relay (src/app.py, src/main.py).          *)
(*                                                                         *)
(* All request handlers are `async def` and therefore run on one asyncio   *)
(* event loop: code between two awaits runs without interleaving.  The     *)
(* variable `running` holds the request whose coroutine currently owns     *)
(* the loop (0 when the loop is free to resume any awaiting coroutine).    *)
(* Text values are sequences of tokens; the token "*" is one asterisk.     *)
(***************************************************************************)
EXTENDS Integers, Sequences, FiniteSets, TLC

\* Number of requests handled by the process in one run.
NumReq == 2
\* Longest message handed to the delivery functions when they are
\* exercised on their own.
MaxLen == 3

\* Documents in the collection when the read operations are checked, and
\* the range of their timestamps.
MaxDocs == 3

Reqs == 1..NumReq

VARIABLES cfg, req, hist, store, store0, conns, nextConn, connLog,
          agent, built, clock, running, dcall

vars == <<cfg, req, hist, store, store0, conns, nextConn, connLog,
          agent, built, clock, running, dcall>>

-----------------------------------------------------------------------------
\* Python values

\* Python's None, kept in the type of text so that it can be compared.
None == <<"<None>">>

\* Truthiness of an optional text: neither None nor the empty string.
Truthy(s) == s # None /\ s # <<>>

\* str.replace("**", "*"): left to right, non-overlapping.
RECURSIVE replace_bold(_)
replace_bold(s) ==
    IF s = <<>> THEN <<>>
    ELSE IF Len(s) >= 2 /\ s[1] = "*" /\ s[2] = "*"
         THEN <<"*">> \o replace_bold(SubSeq(s, 3, Len(s)))
         ELSE <<s[1]>> \o replace_bold(Tail(s))

\* str.replace("whatsapp:", ""): every occurrence of the prefix is removed.
strip_whatsapp(s) == SelectSeq(s, LAMBDA t : t # "whatsapp:")

\* A session identifier that does not depend on the user.
session_shared(user_id) == <<"default", "_session">>

\* f"{user_id}_session"
session_of(user_id) == user_id \o <<"_session">>

\* str(MessagingResponse()) after response.message(text)
MessagingResponse(text) ==
    <<"<Response><Message>">> \o text \o <<"</Message></Response>">>

\* The text a channel provider extracts from an inline markup body.
MarkupText(body) == SubSeq(body, 2, Len(body) - 1)

FastAPIResponse(content, media_type, status_code) ==
    [status |-> status_code, media_type |-> media_type, content |-> content]

NoResp == [status |-> 0, media_type |-> "", content |-> <<>>]

-----------------------------------------------------------------------------
\* Fixed texts of the handlers

AudioPlaceholder == <<"[Audio Message]">>
AudioPrompt == <<"Listen to this audio. Search knowledge base and respond in French using 'vous'.">>
FetchApology == <<"Desole, je n'ai pas pu recuperer l'audio. Reessayez plus tard.">>
AudioApology == <<"Desole, une erreur est survenue avec le traitement audio. Reessayez plus tard.">>
TextApology == <<"Desole, une erreur est survenue. Reessayez dans un instant.">>
ChatApology == <<"Desole, une erreur est survenue en traitant votre demande. ",
                 "Reessayez dans un instant.">>
UnhandledApology == <<"Desole, une erreur inattendue est survenue.">>
MissingAck == <<"Missing user_id or message">>
ChatRequired == <<"user_id and message are required">>

-----------------------------------------------------------------------------
\* Configuration read from the environment at import time

\* A configuration check that looks at the connection target only.
mongo_configured_uri_only(c) == c.uri

\* A configuration check that forgets the collection name.
mongo_configured_no_collection(c) == c.uri /\ c.db

mongo_configured(c) == c.uri /\ c.db /\ c.coll

Configs == [uri : BOOLEAN, db : BOOLEAN, coll : BOOLEAN,
            sid : BOOLEAN, token : BOOLEAN, phone : BOOLEAN]

-----------------------------------------------------------------------------
\* Delivery

\* get_twilio_client(): None without credentials, else a client; building
\* the client (import, constructor) can raise.
get_twilio_client(c, clientOK) ==
    IF ~(c.sid /\ c.token) THEN [raised |-> FALSE, client |-> FALSE]
    ELSE IF clientOK THEN [raised |-> FALSE, client |-> TRUE]
    ELSE [raised |-> TRUE, client |-> FALSE]

\* The inline-markup reply built by send_agent_response; not guarded by any
\* try, so a failure to build it raises out of send_agent_response.
send_markup(agent_message, markupOK) ==
    IF markupOK
    THEN [raised |-> FALSE, sent |-> <<>>,
          response |-> FastAPIResponse(MessagingResponse(replace_bold(agent_message)),
                                       "application/xml", 200)]
    ELSE [raised |-> TRUE, sent |-> <<>>, response |-> NoResp]

send_agent_response(c, user_id, agent_message, clientOK, apiOK, markupOK) ==
    LET tc == get_twilio_client(c, clientOK) IN
    IF tc.raised THEN [raised |-> TRUE, sent |-> <<>>, response |-> NoResp]
    ELSE IF tc.client /\ c.phone
    THEN IF apiOK
         THEN [raised |-> FALSE,
               sent |-> <<[to |-> <<"whatsapp:">> \o user_id,
                           body |-> replace_bold(agent_message)]>>,
               response |-> FastAPIResponse(<<>>, "", 204)]
         ELSE send_markup(agent_message, markupOK)
    ELSE send_markup(agent_message, markupOK)

\* respond_twiml_text without its try/except.
respond_twiml_text_unguarded(message, markupOK) ==
    IF markupOK
    THEN [raised |-> FALSE,
          response |-> FastAPIResponse(MessagingResponse(replace_bold(message)),
                                       "application/xml", 200)]
    ELSE [raised |-> TRUE, response |-> NoResp]

respond_twiml_text(message, markupOK) ==
    IF markupOK
    THEN [raised |-> FALSE,
          response |-> FastAPIResponse(MessagingResponse(replace_bold(message)),
                                       "application/xml", 200)]
    ELSE [raised |-> FALSE,
          response |-> FastAPIResponse(message, "text/plain", 200)]

-----------------------------------------------------------------------------
\* Conversation store

\* The document built by save_chat_message from its arguments.
save_chat_message(a) ==
    [user_id |-> a.user_id,
     message |-> a.message,
     sender |-> a.sender,
     timestamp |-> a.timestamp,
     session_id |-> IF Truthy(a.session_id) THEN a.session_id
                    ELSE session_of(a.user_id),
     audio_url |-> IF Truthy(a.audio_url) THEN a.audio_url ELSE None,
     media_type |-> IF Truthy(a.media_type) THEN a.media_type ELSE None]

SaveArgs(user_id, message, sender, timestamp, audio_url, media_type, session_id) ==
    [user_id |-> user_id, message |-> message, sender |-> sender,
     timestamp |-> timestamp, audio_url |-> audio_url,
     media_type |-> media_type, session_id |-> session_id]

NoArgs == SaveArgs(<<>>, <<>>, "", 0, None, None, None)
NoDoc == save_chat_message(NoArgs)

\* AsyncIOMotorClient(MONGODB_URI): a new client object on every call.
AsyncIOMotorClient(n) == n

\* A close() that leaves the client open.
client_close_leak(cs, c) == cs

\* client.close()
client_close(cs, c) == cs \ {c}

\* A write that updates the user's previous document of the same sender
\* in place when there is one.
insert_one_upsert(s, d) ==
    IF \E i \in 1..Len(s) : s[i].user_id = d.user_id /\ s[i].sender = d.sender
    THEN LET i == CHOOSE j \in 1..Len(s) :
                      s[j].user_id = d.user_id /\ s[j].sender = d.sender
         IN [s EXCEPT ![i] = d]
    ELSE Append(s, d)

\* A write that replaces the newest document of the collection.
insert_one_replace_last(s, d) ==
    IF s = <<>> THEN <<d>> ELSE [s EXCEPT ![Len(s)] = d]

\* collection.insert_one(document)
insert_one(s, d) == Append(s, d)

Min(a, b) == IF a < b THEN a ELSE b
Remove(s, i) == SubSeq(s, 1, i - 1) \o SubSeq(s, i + 1, Len(s))
Reverse(s) == [i \in 1..Len(s) |-> s[Len(s) + 1 - i]]

\* collection.find({"user_id": user_id})
find_user(s, user_id) == SelectSeq(s, LAMBDA d : d.user_id = user_id)

\* A newest-first order that trusts the insertion order.
sort_desc_inserted(s) == Reverse(s)

\* .sort("timestamp", -1): newest first; among equal timestamps the
\* earlier inserted document comes first.
RECURSIVE sort_desc(_)
sort_desc(s) ==
    IF s = <<>> THEN <<>>
    ELSE LET m == CHOOSE i \in 1..Len(s) :
                    \A j \in 1..Len(s) :
                        \/ s[j].timestamp < s[i].timestamp
                        \/ s[j].timestamp = s[i].timestamp /\ j >= i
         IN <<s[m]>> \o sort_desc(Remove(s, m))

\* An oldest-first order that gives the newest first.
sort_asc_newest(s) == sort_desc(s)

\* sort=[("timestamp", 1)]: oldest first.
RECURSIVE sort_asc(_)
sort_asc(s) ==
    IF s = <<>> THEN <<>>
    ELSE LET m == CHOOSE i \in 1..Len(s) :
                    \A j \in 1..Len(s) :
                        \/ s[j].timestamp > s[i].timestamp
                        \/ s[j].timestamp = s[i].timestamp /\ j >= i
         IN <<s[m]>> \o sort_asc(Remove(s, m))

\* A window that ignores skip.
skip_limit_from_start(s, skip, limit) == SubSeq(s, 1, Min(Len(s), limit))

\* .skip(skip).limit(limit) and to_list(length=limit)
skip_limit(s, skip, limit) == SubSeq(s, skip + 1, Min(Len(s), skip + limit))

\* message["timestamp"] = message["timestamp"].isoformat() + "Z"
serialize(d) == [d EXCEPT !.timestamp = <<"iso", @, "Z">>]
serialize_all(s) == [i \in 1..Len(s) |-> serialize(s[i])]

\* The query of get_chat_history and its post-processing (lines 94-109).
chat_history(s, user_id, limit, skip) ==
    Reverse(serialize_all(skip_limit(sort_desc(find_user(s, user_id)), skip, limit)))

\* User identifiers in ascending order; the empty identifier sorts first.
UserIdOrder ==
    << <<>>, <<"212600000000">>, <<"212600000001">>, <<"212600000002">> >>

\* An aggregation that ignores skip.
aggregate_users_unpaged(s, skip, limit) ==
    skip_limit(SelectSeq(UserIdOrder,
                         LAMBDA u : \E i \in 1..Len(s) : s[i].user_id = u),
               0, limit)

\* The aggregation of get_all_users_chat_history (lines 126-134): distinct
\* user_id values, ascending, then $skip and $limit.
aggregate_users(s, skip, limit) ==
    skip_limit(SelectSeq(UserIdOrder,
                         LAMBDA u : \E i \in 1..Len(s) : s[i].user_id = u),
               skip, limit)

\* A document written by an earlier run of the service.
Earlier(user_id, message, sender, timestamp) ==
    save_chat_message(SaveArgs(user_id, message, sender, timestamp, None, None, None))

\* What the collection holds when the process starts: nothing, or the
\* conversations of two users, written before the process's clock started.
InitialStores ==
    { <<>>,
      << Earlier(<<"212600000000">>, <<"Salut">>, "user", -2),
         Earlier(<<"212600000000">>, <<"*", "*", "Bonjour", "*", "*", " !">>, "agent", -1),
         Earlier(<<"212600000001">>, <<"Bonjour">>, "user", 0) >> }

-----------------------------------------------------------------------------
\* Agent

\* The replies the agent can give: a reply object with a non-empty content
\* field, or one without, which the handlers turn into text with str().
AgentOutcomes ==
    { [raised |-> TRUE,  content |-> None, str |-> <<>>],
      [raised |-> FALSE, content |-> <<"*", "*", "Bonjour", "*", "*", " !">>,
       str |-> <<"RunResponse(content)">>],
      [raised |-> FALSE, content |-> None, str |-> <<"RunResponse()">>] }

\* getattr(agent_response, 'content', None) or str(agent_response)
reply_text(o) == IF Truthy(o.content) THEN o.content ELSE o.str

\* A get_agent() that constructs an instance on every call.
get_agent_uncached(inst, nbuilt, constructOK) ==
    IF constructOK
    THEN [raised |-> FALSE, instance |-> nbuilt + 1, built |-> nbuilt + 1,
          attempted |-> TRUE]
    ELSE [raised |-> TRUE, instance |-> inst, built |-> nbuilt, attempted |-> TRUE]

\* A get_agent() that assigns the handle before the construction is over,
\* so that a failed construction leaves it set.
get_agent_assigns_early(inst, nbuilt, constructOK) ==
    IF inst # 0
    THEN [raised |-> FALSE, instance |-> inst, built |-> nbuilt, attempted |-> FALSE]
    ELSE IF constructOK
         THEN [raised |-> FALSE, instance |-> nbuilt + 1, built |-> nbuilt + 1,
               attempted |-> TRUE]
         ELSE [raised |-> TRUE, instance |-> nbuilt + 1, built |-> nbuilt,
               attempted |-> TRUE]

\* get_agent(): the cached instance, or a newly constructed one; the
\* constructor can raise, which leaves the cache unset.  Instances are
\* numbered from 1 in order of construction; 0 is None.  `attempted` tells
\* whether the call went on to construct.
get_agent(inst, nbuilt, constructOK) ==
    IF inst # 0
    THEN [raised |-> FALSE, instance |-> inst, built |-> nbuilt, attempted |-> FALSE]
    ELSE IF constructOK
         THEN [raised |-> FALSE, instance |-> nbuilt + 1, built |-> nbuilt + 1,
               attempted |-> TRUE]
         ELSE [raised |-> TRUE, instance |-> 0, built |-> nbuilt, attempted |-> TRUE]

-----------------------------------------------------------------------------
\* Media fetch

\* The redirect limit of the HTTP library (requests' default).
max_redirects == 30

\* What the media server does during one call of requests.get: it answers
\* `redirects` times with a redirect status and a Location, and then the
\* request raises (status 0) or is answered with `status` and no Location.
\* More than max_redirects redirects stand for a redirect loop.
FirstGet ==
    [redirects : {0, 1, 2}, status : {0, 200, 302, 404}]
    \cup { [redirects |-> max_redirects + 1, status |-> 302] }
SecondGet == FirstGet

\* requests.get(url) with redirects followed (allow_redirects=True, the
\* default of requests.get): every redirect with a Location is followed
\* inside the call, up to max_redirects of them, after which the call raises
\* TooManyRedirects.  The response returned is never a redirect with a
\* Location.  `gets` counts the GETs sent, `hops` the redirects followed.
requests_get(a) ==
    IF a.redirects > max_redirects
    THEN [raised |-> TRUE, status |-> 0, location |-> FALSE,
          gets |-> max_redirects + 1, hops |-> max_redirects]
    ELSE [raised |-> a.status = 0, status |-> a.status, location |-> FALSE,
          gets |-> a.redirects + 1, hops |-> a.redirects]

RedirectStatus(s) == s \in {301, 302, 303, 307, 308}

\* response.raise_for_status(): raises for 4xx and 5xx only.
raise_for_status(s) == s >= 400 /\ s < 600

\* Lines 551-562 of the audio flow: whether the try block completed, the
\* calls of requests.get made, the GETs sent and redirects followed in
\* them, and the status of the response kept (0 when the call raised).
media_fetch(first, second) ==
    LET r1 == requests_get(first)
        r2 == requests_get(second)
    IN
    IF r1.raised
    THEN [ok |-> FALSE, calls |-> 1, gets |-> r1.gets, hops |-> r1.hops,
          status |-> 0]
    ELSE IF RedirectStatus(r1.status) /\ r1.location
    THEN [ok |-> ~r2.raised /\ ~raise_for_status(r2.status), calls |-> 2,
          gets |-> r1.gets + r2.gets, hops |-> r1.hops + r2.hops,
          status |-> r2.status]
    ELSE [ok |-> ~raise_for_status(r1.status), calls |-> 1, gets |-> r1.gets,
          hops |-> r1.hops, status |-> r1.status]

-----------------------------------------------------------------------------
\* Requests

Users == { <<"212600000000">>, <<"212600000001">> }
UserMessage == <<"Bonjour">>
MediaUrl == <<"https://media.example/audio0">>
AudioType == <<"audio", "/ogg">>
ImageType == <<"image", "/jpeg">>

\* A test that takes any declared content type for audio.
startswith_audio_any(t) == Len(t) >= 1

\* media_type.startswith("audio")
startswith_audio(t) == Len(t) >= 1 /\ t[1] = "audio"

\* timestamp.isoformat() + "Z"
isoformat_z(t) == <<"iso", t, "Z">>

JsonBody(user_id, message, agent_response, timestamp, detail) ==
    [user_id |-> user_id, message |-> message, agent_response |-> agent_response,
     timestamp |-> timestamp, detail |-> detail]

\* JSONResponse(body, status_code) and a returned dict (status 200).
JSONResponse(body, status_code) ==
    [status |-> status_code, media_type |-> "application/json",
     content |-> <<>>, json |-> body]

NoJson == JsonBody(<<>>, <<>>, <<>>, <<>>, <<>>)

\* A response of the channel handler, which carries no JSON body.
Plain(resp) ==
    [status |-> resp.status, media_type |-> resp.media_type,
     content |-> resp.content, json |-> NoJson]

\* The framework's answer when an exception leaves a handler.
ServerError == [status |-> 500, media_type |-> "text/plain",
                content |-> <<"Internal Server Error">>, json |-> NoJson]

\* Query parameters of the read endpoints.
Query(user_id, limit, skip, include_summary) ==
    [user_id |-> user_id, limit |-> limit, skip |-> skip,
     include_summary |-> include_summary]

NoQuery == Query(<<>>, 0, 0, FALSE)

HistoryQueries ==
    { Query(u, l, k, FALSE) : u \in Users, l \in {0, 1, 2, 101}, k \in {-1, 0, 1} }
UsersQueries ==
    { Query(<<>>, l, k, b) : l \in {0, 1, 2, 101}, k \in {-1, 0, 1}, b \in BOOLEAN }
SummaryQueries ==
    { Query(u, l, 0, FALSE) : u \in Users, l \in {0, 1, 2, 51} }

NoBody == [shape |-> "none", user_id |-> None, message |-> None]

IdleReq ==
    [kind |-> "none", pc |-> "idle", flow |-> "none", ret |-> "", body |-> NoBody,
     args |-> NoArgs, doc |-> NoDoc, conn |-> 0,
     user_id |-> <<>>, user_message |-> <<>>, timestamp |-> 0,
     session_id |-> <<>>, media_url |-> None, media_type |-> <<>>,
     agent_message |-> <<>>, error_message |-> <<>>, resp |-> Plain(NoResp),
     q |-> NoQuery, users |-> <<>>, i |-> 0, found |-> FALSE, latest |-> NoDoc,
     out |-> <<>>, suser |-> <<>>, slimit |-> 0, sret |-> "",
     total |-> 0, recent |-> <<>>, first |-> <<>>]

\* What each request did, recorded for the properties below.
IdleHist ==
    [ops |-> 0, submitted |-> <<>>, persisted |-> <<>>, failed_writes |-> 0,
     failed_reads |-> 0, read_raised |-> FALSE,
     agent_runs |-> 0, instance |-> 0, agent_raised |-> FALSE, fetch |-> "none", gets |-> 0,
     attempted |-> FALSE, agent_at |-> 0, calls |-> 0, hops |-> 0, status |-> 0,
     send |-> "none", sent |-> <<>>, escaped |-> FALSE, unhandled |-> FALSE]

\* Bodies of POST /webhook.  A form or JSON object gives its fields (None
\* when the key is absent); the other shapes give no fields.
WebhookPayloads ==
    [shape : {"form", "json"},
     From : {None} \cup { <<"whatsapp:">> \o u : u \in Users },
     Body : {None, UserMessage},
     MediaUrl0 : {None, MediaUrl},
     MediaContentType0 : {None, AudioType, ImageType}]
    \cup
    [shape : {"form_error", "nonobject", "unparsable"},
     From : {None}, Body : {None}, MediaUrl0 : {None},
     MediaContentType0 : {None}]

\* Bodies of POST /api/chat.
ChatPayloads ==
    [shape : {"json"}, user_id : {None, <<>>} \cup Users,
     message : {None, <<>>, UserMessage}]
    \cup
    [shape : {"nonobject", "unparsable"}, user_id : {None}, message : {None}]

\* data.get(key, default)
dict_get(v, default) == IF v = None THEN default ELSE v

\* A call of a delivery function on its own: its arguments, what the
\* channel provider and the markup library did, and what came back.
Call(fn, user_id, message, clientOK, apiOK, markupOK, res) ==
    [fn |-> fn, user_id |-> user_id, message |-> message,
     clientOK |-> clientOK, apiOK |-> apiOK, markupOK |-> markupOK,
     raised |-> res.raised, sent |-> res.sent, response |-> res.response]

NoCall == Call("none", <<>>, <<>>, TRUE, TRUE, TRUE,
               [raised |-> FALSE, sent |-> <<>>, response |-> NoResp])

\* Texts of at most n tokens, each an asterisk or a letter.
RECURSIVE Texts(_)
Texts(n) ==
    IF n = 0 THEN { <<>> }
    ELSE Texts(n - 1) \cup
         { Append(t, c) : t \in Texts(n - 1), c \in {"*", "a"} }

-----------------------------------------------------------------------------
Init ==
    /\ cfg \in Configs
    /\ req = [r \in Reqs |-> IdleReq]
    /\ hist = [r \in Reqs |-> IdleHist]
    /\ store \in InitialStores
    /\ store0 = store
    /\ conns = {}
    /\ nextConn = 1
    /\ connLog = {}
    /\ agent = 0
    /\ built = 0
    /\ clock = 1
    /\ running = 0
    /\ dcall = NoCall

\* A request is taken up when the loop is free; requests are numbered in
\* the order in which they arrive.  `alone` asks for a process that has
\* received no other request.
CanStart(r, alone) ==
    /\ running = 0
    /\ req[r].pc = "idle"
    /\ \A q \in Reqs : q < r => req[q].pc # "idle"
    /\ alone => \A q \in Reqs \ {r} : req[q].pc = "idle"

\* What the outside world can send and answer: every shape of request and
\* every outcome of the agent.
FullEnv ==
    [alone |-> TRUE, webhook |-> WebhookPayloads, chat |-> ChatPayloads,
     agent |-> AgentOutcomes, history |-> HistoryQueries,
     users |-> UsersQueries, summary |-> SummaryQueries]

StoreVars == <<store, store0, conns, nextConn, connLog>>
AgentVars == <<agent, built>>

\* The handler returns `response`; the loop is free again.
Return(r, rq, response) ==
    /\ req' = [req EXCEPT ![r] = [rq EXCEPT !.pc = "done", !.resp = response]]
    /\ running' = 0

\* A store operation of request r creates its client and reaches its first
\* await with the request in state rq; the operation is entered in connLog.
Open(r, rq, h) ==
    LET client == AsyncIOMotorClient(nextConn) IN
    /\ req' = [req EXCEPT ![r] = [rq EXCEPT !.conn = client]]
    /\ hist' = [hist EXCEPT ![r] = [h EXCEPT !.ops = @ + 1]]
    /\ conns' = conns \cup {client}
    /\ nextConn' = nextConn + 1
    /\ connLog' = connLog \cup {[client |-> client, op |-> <<r, h.ops + 1>>]}
    /\ running' = 0

\* The handler calls save_chat_message(...) and continues at `ret`.
CallSave(rq, a, ret) == [rq EXCEPT !.pc = "save", !.args = a, !.ret = ret]

-----------------------------------------------------------------------------
\* Conversation store: save_chat_message -> safe_db_insert -> db_insert

\* save_chat_message builds the document and calls safe_db_insert, which
\* returns at once when the configuration is missing or the client cannot be
\* created, and otherwise reaches `await collection.insert_one(document)`.
safe_db_insert(r) ==
    /\ running = r
    /\ req[r].pc = "save"
    /\ LET document == save_chat_message(req[r].args)
           h == [hist[r] EXCEPT !.submitted = Append(@, document)]
       IN
       IF ~mongo_configured(cfg)
       THEN /\ req' = [req EXCEPT ![r].pc = req[r].ret]
            /\ hist' = [hist EXCEPT ![r] = h]
            /\ UNCHANGED <<StoreVars, running>>
       ELSE \E clientOK \in BOOLEAN :
            IF ~clientOK
            THEN /\ req' = [req EXCEPT ![r].pc = req[r].ret]
                 /\ hist' = [hist EXCEPT ![r] = [h EXCEPT !.failed_writes = @ + 1]]
                 /\ UNCHANGED <<StoreVars, running>>
            ELSE /\ Open(r, [req[r] EXCEPT !.pc = "insert_one", !.doc = document], h)
                 /\ UNCHANGED <<store, store0>>
    /\ UNCHANGED <<cfg, AgentVars, clock, dcall>>

\* The awaited insert completes or fails; `finally` closes the client; an
\* error is swallowed by safe_db_insert.  The handler then runs on.
db_insert(r) ==
    /\ running = 0
    /\ req[r].pc = "insert_one"
    /\ \E ok \in BOOLEAN :
         /\ store' = IF ok THEN insert_one(store, req[r].doc) ELSE store
         /\ hist' = [hist EXCEPT ![r] =
                [@ EXCEPT !.persisted = IF ok THEN Append(@, req[r].doc) ELSE @,
                          !.failed_writes = IF ok THEN @ ELSE @ + 1]]
    /\ conns' = client_close(conns, req[r].conn)
    /\ req' = [req EXCEPT ![r] = [@ EXCEPT !.pc = req[r].ret, !.conn = 0,
                                           !.doc = NoDoc]]
    /\ running' = r
    /\ UNCHANGED <<cfg, store0, nextConn, connLog, AgentVars, clock, dcall>>

-----------------------------------------------------------------------------
\* POST /webhook

IsAudio(rq) == Truthy(rq.media_url) /\ startswith_audio(rq.media_type)

\* An except block that replies without saving the apology.
agent_error_unsaved(rq, now) ==
    [rq EXCEPT !.pc = "w_error_reply",
               !.error_message = IF rq.flow = "audio" THEN AudioApology
                                 ELSE TextApology]

\* The `except Exception` blocks of the audio and text flows: the apology is
\* saved as the agent's message and then sent with respond_twiml_text.
agent_error(rq, now) ==
    LET error_message == IF rq.flow = "audio" THEN AudioApology ELSE TextApology
    IN CallSave([rq EXCEPT !.error_message = error_message],
                SaveArgs(rq.user_id, error_message, "agent", now, None, None,
                         rq.session_id),
                "w_error_reply")

\* Lines 529-547: the body is read and the fields are taken from it.  A body
\* that is not an object has no .get, and the form parser can raise: both
\* end in the outermost except.
whatsapp_webhook_receive(r, E) ==
    /\ CanStart(r, E.alone)
    /\ \E p \in E.webhook :
         LET rq == [req[r] EXCEPT !.kind = "webhook", !.body = p] IN
         IF p.shape \in {"form_error", "nonobject"}
         THEN /\ req' = [req EXCEPT ![r] = [rq EXCEPT !.pc = "w_unhandled"]]
              /\ clock' = clock
         ELSE LET from == dict_get(p.From, <<>>)
                  user_id == strip_whatsapp(IF Truthy(from) THEN from ELSE <<>>)
              IN
              /\ req' = [req EXCEPT ![r] =
                    [rq EXCEPT !.pc = "w_classify",
                               !.user_id = user_id,
                               !.user_message = dict_get(p.Body, <<>>),
                               !.timestamp = clock,
                               !.session_id = session_of(user_id),
                               !.media_url = p.MediaUrl0,
                               !.media_type = dict_get(p.MediaContentType0, <<>>)]]
              /\ clock' = clock + 1
    /\ running' = r
    /\ UNCHANGED <<cfg, hist, StoreVars, AgentVars, dcall>>

\* Audio flow, lines 550-573: the media is fetched; on failure the handler
\* returns the apology, otherwise it saves the placeholder message.
whatsapp_webhook_audio(r) ==
    /\ running = r
    /\ req[r].pc = "w_classify"
    /\ IsAudio(req[r])
    /\ \E first \in FirstGet, second \in SecondGet, markupOK \in BOOLEAN :
         LET f == media_fetch(first, second)
             rq == [req[r] EXCEPT !.flow = "audio"]
             res == respond_twiml_text(FetchApology, markupOK)
         IN
         /\ hist' = [hist EXCEPT ![r] =
                [@ EXCEPT !.fetch = IF f.ok THEN "ok" ELSE "failed",
                          !.gets = f.gets,
                          !.calls = f.calls,
                          !.hops = f.hops,
                          !.status = f.status]]
         /\ IF f.ok
            THEN /\ req' = [req EXCEPT ![r] =
                        CallSave(rq, SaveArgs(rq.user_id, AudioPlaceholder, "user",
                                              rq.timestamp, rq.media_url,
                                              rq.media_type, rq.session_id),
                                 "w_agent")]
                 /\ running' = r
            ELSE IF res.raised
            THEN /\ req' = [req EXCEPT ![r] = [rq EXCEPT !.pc = "w_unhandled"]]
                 /\ running' = r
            ELSE Return(r, rq, Plain(res.response))
    /\ UNCHANGED <<cfg, StoreVars, AgentVars, clock, dcall>>

\* Text flow, lines 613-623: a non-empty text is saved; without text the
\* handler acknowledges with a diagnostic.
whatsapp_webhook_text(r) ==
    /\ running = r
    /\ req[r].pc = "w_classify"
    /\ ~IsAudio(req[r])
    /\ IF Truthy(req[r].user_message)
       THEN LET rq == [req[r] EXCEPT !.flow = "text"] IN
            /\ req' = [req EXCEPT ![r] =
                   CallSave(rq, SaveArgs(rq.user_id, rq.user_message, "user",
                                         rq.timestamp, None, None, rq.session_id),
                            "w_agent")]
            /\ running' = r
       ELSE Return(r, [req[r] EXCEPT !.flow = "empty"],
                   Plain(FastAPIResponse(MissingAck, "", 200)))
    /\ UNCHANGED <<cfg, hist, StoreVars, AgentVars, clock, dcall>>

\* Lines 575-593 and 625-641: get_agent().run(...); the reply is saved as the
\* agent's message; any exception goes to the flow's except block.
whatsapp_webhook_agent(r, E) ==
    /\ running = r
    /\ req[r].pc = "w_agent"
    /\ \E constructOK \in BOOLEAN, o \in E.agent :
         LET g == get_agent(agent, built, constructOK)
             raised == g.raised \/ o.raised
             agent_message == reply_text(o)
         IN
         /\ agent' = g.instance
         /\ built' = g.built
         /\ hist' = [hist EXCEPT ![r] =
                [@ EXCEPT !.agent_runs = @ + (IF g.raised THEN 0 ELSE 1),
                          !.instance = g.instance,
                          !.attempted = g.attempted,
                          !.agent_at = clock,
                          !.agent_raised = raised]]
         /\ req' = [req EXCEPT ![r] =
                IF raised THEN agent_error(req[r], clock)
                ELSE CallSave([req[r] EXCEPT !.agent_message = agent_message],
                              SaveArgs(req[r].user_id, agent_message, "agent",
                                       clock, None, None, req[r].session_id),
                              "w_send")]
    /\ clock' = clock + 1
    /\ UNCHANGED <<cfg, StoreVars, running, dcall>>

\* Lines 595 and 643: return send_agent_response(user_id, agent_message),
\* inside the same try as the agent call.
whatsapp_webhook_send(r) ==
    /\ running = r
    /\ req[r].pc = "w_send"
    /\ \E clientOK \in BOOLEAN, apiOK \in BOOLEAN, markupOK \in BOOLEAN :
         LET res == send_agent_response(cfg, req[r].user_id, req[r].agent_message,
                                        clientOK, apiOK, markupOK)
         IN
         /\ hist' = [hist EXCEPT ![r] =
                [@ EXCEPT !.send = IF res.raised THEN "raised" ELSE "returned",
                          !.sent = @ \o res.sent]]
         /\ IF res.raised
            THEN /\ req' = [req EXCEPT ![r] = agent_error(req[r], clock)]
                 /\ clock' = clock + 1
                 /\ running' = r
            ELSE /\ Return(r, req[r], Plain(res.response))
                 /\ clock' = clock
    /\ UNCHANGED <<cfg, StoreVars, AgentVars, dcall>>

\* Lines 610 and 658: return respond_twiml_text(error_message).
whatsapp_webhook_error_reply(r) ==
    /\ running = r
    /\ req[r].pc = "w_error_reply"
    /\ \E markupOK \in BOOLEAN :
         LET res == respond_twiml_text(req[r].error_message, markupOK) IN
         IF res.raised
         THEN /\ req' = [req EXCEPT ![r].pc = "w_unhandled"]
              /\ running' = r
         ELSE Return(r, req[r], Plain(res.response))
    /\ UNCHANGED <<cfg, hist, StoreVars, AgentVars, clock, dcall>>

\* An outermost except that logs and raises again: the handler ends with
\* no response of its own.
whatsapp_webhook_unhandled_reraise(r) ==
    /\ running = r
    /\ req[r].pc = "w_unhandled"
    /\ hist' = [hist EXCEPT ![r] = [@ EXCEPT !.unhandled = TRUE, !.escaped = TRUE]]
    /\ req' = [req EXCEPT ![r].pc = "raised"]
    /\ running' = 0
    /\ UNCHANGED <<cfg, StoreVars, AgentVars, clock, dcall>>

\* Lines 660-663: the outermost except.  An exception raised here would
\* leave the handler.
whatsapp_webhook_unhandled(r) ==
    /\ running = r
    /\ req[r].pc = "w_unhandled"
    /\ \E markupOK \in BOOLEAN :
         LET res == respond_twiml_text(UnhandledApology, markupOK) IN
         /\ hist' = [hist EXCEPT ![r] =
                [@ EXCEPT !.unhandled = TRUE, !.escaped = res.raised]]
         /\ Return(r, req[r],
                   IF res.raised THEN ServerError ELSE Plain(res.response))
    /\ UNCHANGED <<cfg, StoreVars, AgentVars, clock, dcall>>

-----------------------------------------------------------------------------
\* POST /api/chat

\* Lines 471-492: the body is parsed (an unparsable body counts as {}), the
\* two fields are required, and the user's message is saved.  data.get on a
\* body that is not an object raises outside any try.
chat_api_receive(r, E) ==
    /\ CanStart(r, E.alone)
    /\ \E p \in E.chat :
         LET rq == [req[r] EXCEPT !.kind = "chat", !.body = p] IN
         IF p.shape = "nonobject"
         THEN /\ Return(r, rq, ServerError)
              /\ hist' = [hist EXCEPT ![r].escaped = TRUE]
              /\ clock' = clock
         ELSE IF ~Truthy(p.user_id) \/ ~Truthy(p.message)
         THEN /\ Return(r, rq, JSONResponse(
                        JsonBody(<<>>, <<>>, <<>>, <<>>, ChatRequired), 400))
              /\ UNCHANGED <<hist, clock>>
         ELSE LET rq1 == [rq EXCEPT !.user_id = p.user_id,
                                    !.user_message = p.message,
                                    !.timestamp = clock,
                                    !.session_id = session_of(p.user_id)]
              IN
              /\ req' = [req EXCEPT ![r] =
                     CallSave(rq1, SaveArgs(rq1.user_id, rq1.user_message, "user",
                                            rq1.timestamp, None, None,
                                            rq1.session_id),
                              "c_agent")]
              /\ running' = r
              /\ clock' = clock + 1
              /\ UNCHANGED hist
    /\ UNCHANGED <<cfg, StoreVars, AgentVars, dcall>>

\* Lines 494-517: get_agent().run(...); on any exception the apology takes
\* the place of the reply; the agent's message is saved.
chat_api_agent(r, E) ==
    /\ running = r
    /\ req[r].pc = "c_agent"
    /\ \E constructOK \in BOOLEAN, o \in E.agent :
         LET g == get_agent(agent, built, constructOK)
             raised == g.raised \/ o.raised
             agent_message == IF raised THEN ChatApology ELSE reply_text(o)
         IN
         /\ agent' = g.instance
         /\ built' = g.built
         /\ hist' = [hist EXCEPT ![r] =
                [@ EXCEPT !.agent_runs = @ + (IF g.raised THEN 0 ELSE 1),
                          !.instance = g.instance,
                          !.attempted = g.attempted,
                          !.agent_at = clock,
                          !.agent_raised = raised]]
         /\ req' = [req EXCEPT ![r] =
                CallSave([req[r] EXCEPT !.agent_message = agent_message],
                         SaveArgs(req[r].user_id, agent_message, "agent", clock,
                                  None, None, req[r].session_id),
                         "c_return")]
    /\ clock' = clock + 1
    /\ UNCHANGED <<cfg, StoreVars, running, dcall>>

\* Lines 519-524.
chat_api_return(r) ==
    /\ running = r
    /\ req[r].pc = "c_return"
    /\ Return(r, req[r],
              JSONResponse(JsonBody(req[r].user_id, req[r].user_message,
                                    req[r].agent_message,
                                    isoformat_z(req[r].timestamp), <<>>), 200))
    /\ UNCHANGED <<cfg, hist, StoreVars, AgentVars, clock, dcall>>

-----------------------------------------------------------------------------
\* Read endpoints

Detail(text) == [detail |-> text]
LimitDetail100 == Detail(<<"limit must be between 1 and 100">>)
LimitDetail50 == Detail(<<"limit must be between 1 and 50">>)
SkipDetail == Detail(<<"skip must be non-negative">>)
NotConfigured == Detail(<<"Database not configured">>)
InternalError == Detail(<<"Internal server error">>)

\* A limit check that only looks at the upper end.
limit_above_max(limit, max) == limit > max

\* if limit < 1 or limit > max
limit_out_of_range(limit, max) == limit < 1 \/ limit > max

\* An awaited read of request r fails: counted for the properties.
ReadFailed(r) == [hist EXCEPT ![r].failed_reads = @ + 1]

\* The client of a read operation could not be created: the exception
\* leaves the operation, whose try starts after the client is created.
ReadRaised(r) ==
    [hist EXCEPT ![r] = [@ EXCEPT !.failed_reads = @ + 1, !.read_raised = TRUE]]

\* GET /api/chat/history/{user_id}, lines 307-335 and 87-96: validation, the
\* configuration check, then get_chat_history up to its await.  The client
\* is created before the try of get_chat_history, so a failure to create it
\* reaches the endpoint's except.
get_chat_history_endpoint(r, E) ==
    /\ CanStart(r, E.alone)
    /\ \E q \in E.history, clientOK \in BOOLEAN :
         LET rq == [req[r] EXCEPT !.kind = "history", !.q = q] IN
         IF limit_out_of_range(q.limit, 100)
         THEN Return(r, rq, JSONResponse(LimitDetail100, 400))
              /\ UNCHANGED <<hist, StoreVars>>
         ELSE IF q.skip < 0
         THEN Return(r, rq, JSONResponse(SkipDetail, 400))
              /\ UNCHANGED <<hist, StoreVars>>
         ELSE IF ~mongo_configured(cfg)
         THEN Return(r, rq, JSONResponse(NotConfigured, 503))
              /\ UNCHANGED <<hist, StoreVars>>
         ELSE IF ~clientOK
         THEN Return(r, rq, JSONResponse(InternalError, 500))
              /\ hist' = ReadRaised(r)
              /\ UNCHANGED StoreVars
         ELSE Open(r, [rq EXCEPT !.pc = "h_to_list"], hist[r])
              /\ UNCHANGED <<store, store0>>
    /\ UNCHANGED <<cfg, AgentVars, clock, dcall>>

\* Lines 98-115 and 337-343: the cursor is read (or fails, giving []), the
\* client is closed and the endpoint answers.
get_chat_history(r) ==
    /\ running = 0
    /\ req[r].pc = "h_to_list"
    /\ \E ok \in BOOLEAN :
         LET messages == IF ok THEN chat_history(store, req[r].q.user_id,
                                                 req[r].q.limit, req[r].q.skip)
                         ELSE <<>>
         IN
         /\ hist' = IF ok THEN hist ELSE ReadFailed(r)
         /\ Return(r, [req[r] EXCEPT !.conn = 0],
                   JSONResponse([user_id |-> req[r].q.user_id,
                                 messages |-> messages,
                                 total_messages |-> Len(messages),
                                 limit |-> req[r].q.limit,
                                 skip |-> req[r].q.skip], 200))
    /\ conns' = client_close(conns, req[r].conn)
    /\ UNCHANGED <<cfg, store, store0, nextConn, connLog, AgentVars, clock, dcall>>

UsersBody(rq, out) ==
    [users |-> out, total_users |-> Len(out), limit |-> rq.q.limit,
     skip |-> rq.q.skip, include_summary |-> rq.q.include_summary]

\* Lines 395-408: get_all_users_chat_history has returned `out`; with
\* include_summary the endpoint asks for each user's summary in turn.
users_listed(r, rq, out) ==
    IF rq.q.include_summary /\ out # <<>>
    THEN /\ req' = [req EXCEPT ![r] =
                [rq EXCEPT !.pc = "s_call", !.out = out, !.i = 1,
                           !.suser = out[1].user_id, !.slimit = 10,
                           !.sret = "users"]]
         /\ running' = r
    ELSE Return(r, [rq EXCEPT !.out = out], JSONResponse(UsersBody(rq, out), 200))

\* GET /api/chat/users, lines 372-393 and 119-133.
get_all_users_endpoint(r, E) ==
    /\ CanStart(r, E.alone)
    /\ \E q \in E.users, clientOK \in BOOLEAN :
         LET rq == [req[r] EXCEPT !.kind = "users", !.q = q] IN
         IF limit_out_of_range(q.limit, 100)
         THEN Return(r, rq, JSONResponse(LimitDetail100, 400))
              /\ UNCHANGED <<hist, StoreVars>>
         ELSE IF q.skip < 0
         THEN Return(r, rq, JSONResponse(SkipDetail, 400))
              /\ UNCHANGED <<hist, StoreVars>>
         ELSE IF ~mongo_configured(cfg)
         THEN Return(r, rq, JSONResponse(NotConfigured, 503))
              /\ UNCHANGED <<hist, StoreVars>>
         ELSE IF ~clientOK
         THEN Return(r, rq, JSONResponse(InternalError, 500))
              /\ hist' = ReadRaised(r)
              /\ UNCHANGED StoreVars
         ELSE Open(r, [rq EXCEPT !.pc = "u_aggregate"], hist[r])
              /\ UNCHANGED <<store, store0>>
    /\ UNCHANGED <<cfg, AgentVars, clock, dcall>>

\* Lines 133-134: the aggregation is read.  On failure the function returns
\* [] and closes its client; with no user there is no loop.
get_all_users_aggregate(r) ==
    /\ running = 0
    /\ req[r].pc = "u_aggregate"
    /\ \E ok \in BOOLEAN :
         LET users == IF ok THEN aggregate_users(store, req[r].q.skip, req[r].q.limit)
                      ELSE <<>>
         IN
         /\ hist' = IF ok THEN hist ELSE ReadFailed(r)
         /\ IF users = <<>>
            THEN /\ conns' = client_close(conns, req[r].conn)
                 /\ users_listed(r, [req[r] EXCEPT !.conn = 0], <<>>)
            ELSE /\ req' = [req EXCEPT ![r] =
                        [@ EXCEPT !.pc = "u_find_one", !.users = users, !.i = 1,
                                  !.out = <<>>]]
                 /\ running' = 0
                 /\ UNCHANGED conns
    /\ UNCHANGED <<cfg, store, store0, nextConn, connLog, AgentVars, clock, dcall>>

\* Lines 142-145: the user's latest message.
get_all_users_find_one(r) ==
    /\ running = 0
    /\ req[r].pc = "u_find_one"
    /\ \E ok \in BOOLEAN :
         LET docs == sort_desc(find_user(store, req[r].users[req[r].i])) IN
         IF ok
         THEN /\ req' = [req EXCEPT ![r] =
                     [@ EXCEPT !.pc = "u_count", !.found = docs # <<>>,
                               !.latest = IF docs # <<>> THEN docs[1] ELSE NoDoc]]
              /\ running' = 0
              /\ UNCHANGED <<hist, conns>>
         ELSE /\ hist' = ReadFailed(r)
              /\ conns' = client_close(conns, req[r].conn)
              /\ users_listed(r, [req[r] EXCEPT !.conn = 0], <<>>)
    /\ UNCHANGED <<cfg, store, store0, nextConn, connLog, AgentVars, clock, dcall>>

\* Lines 148-163: the user's message count; the entry is added when a latest
\* message was found; after the last user the list is returned.
get_all_users_count(r) ==
    /\ running = 0
    /\ req[r].pc = "u_count"
    /\ \E ok \in BOOLEAN :
         LET user_id == req[r].users[req[r].i]
             latest == serialize(req[r].latest)
             entry == [user_id |-> user_id, latest_message |-> latest,
                       message_count |-> Len(find_user(store, user_id)),
                       last_activity |-> latest.timestamp]
             out == IF req[r].found THEN Append(req[r].out, entry) ELSE req[r].out
         IN
         IF ~ok
         THEN /\ hist' = ReadFailed(r)
              /\ conns' = client_close(conns, req[r].conn)
              /\ users_listed(r, [req[r] EXCEPT !.conn = 0], <<>>)
         ELSE IF req[r].i < Len(req[r].users)
         THEN /\ req' = [req EXCEPT ![r] =
                     [@ EXCEPT !.pc = "u_find_one", !.out = out, !.i = @ + 1]]
              /\ running' = 0
              /\ UNCHANGED <<hist, conns>>
         ELSE /\ conns' = client_close(conns, req[r].conn)
              /\ users_listed(r, [req[r] EXCEPT !.conn = 0], out)
              /\ UNCHANGED hist
    /\ UNCHANGED <<cfg, store, store0, nextConn, connLog, AgentVars, clock, dcall>>

\* GET /api/chat/users/{user_id}/summary, lines 435-456.
get_user_summary_endpoint(r, E) ==
    /\ CanStart(r, E.alone)
    /\ \E q \in E.summary :
         LET rq == [req[r] EXCEPT !.kind = "summary", !.q = q] IN
         IF limit_out_of_range(q.limit, 50)
         THEN Return(r, rq, JSONResponse(LimitDetail50, 400))
         ELSE IF ~mongo_configured(cfg)
         THEN Return(r, rq, JSONResponse(NotConfigured, 503))
         ELSE /\ req' = [req EXCEPT ![r] =
                     [rq EXCEPT !.pc = "s_call", !.suser = q.user_id,
                                !.slimit = q.limit, !.sret = "endpoint"]]
              /\ running' = r
    /\ UNCHANGED <<cfg, hist, StoreVars, AgentVars, clock, dcall>>

\* get_user_conversation_summary returns `summary` to its caller: the
\* summary endpoint answers with it; the users endpoint attaches it to the
\* user's entry and goes on to the next user.
summary_returned(r, rq, summary) ==
    IF rq.sret = "endpoint"
    THEN Return(r, rq, JSONResponse(summary, 200))
    ELSE LET e == rq.out[rq.i]
             out == [rq.out EXCEPT ![rq.i] =
                        [user_id |-> e.user_id,
                         latest_message |-> e.latest_message,
                         message_count |-> e.message_count,
                         last_activity |-> e.last_activity,
                         conversation_summary |-> summary]]
         IN
         IF rq.i < Len(rq.out)
         THEN /\ req' = [req EXCEPT ![r] =
                     [rq EXCEPT !.pc = "s_call", !.out = out, !.i = @ + 1,
                                !.suser = rq.out[rq.i + 1].user_id]]
              /\ running' = r
         ELSE Return(r, [rq EXCEPT !.out = out], JSONResponse(UsersBody(rq, out), 200))

\* Lines 220-224: a failed read gives the partial summary; the client is
\* closed.
summary_failed(r) ==
    /\ hist' = ReadFailed(r)
    /\ conns' = client_close(conns, req[r].conn)
    /\ summary_returned(r, [req[r] EXCEPT !.conn = 0],
                        [user_id |-> req[r].suser, error |-> <<"str(e)">>])

\* Lines 173-180: the client is created (outside the try: a failure reaches
\* the endpoint's except) and the count is awaited.
get_user_conversation_summary(r) ==
    /\ running = r
    /\ req[r].pc = "s_call"
    /\ \E clientOK \in BOOLEAN :
         IF ~clientOK
         THEN /\ Return(r, req[r], JSONResponse(InternalError, 500))
              /\ hist' = ReadRaised(r)
              /\ UNCHANGED StoreVars
         ELSE /\ Open(r, [req[r] EXCEPT !.pc = "s_count"], hist[r])
              /\ UNCHANGED <<store, store0>>
    /\ UNCHANGED <<cfg, AgentVars, clock, dcall>>

\* Line 180: total_messages.
summary_count(r) ==
    /\ running = 0
    /\ req[r].pc = "s_count"
    /\ \E ok \in BOOLEAN :
         IF ok
         THEN /\ req' = [req EXCEPT ![r] =
                     [@ EXCEPT !.pc = "s_to_list",
                               !.total = Len(find_user(store, req[r].suser))]]
              /\ running' = 0
              /\ UNCHANGED <<hist, conns>>
         ELSE summary_failed(r)
    /\ UNCHANGED <<cfg, store, store0, nextConn, connLog, AgentVars, clock, dcall>>

\* Lines 183-197: recent_messages.
summary_to_list(r) ==
    /\ running = 0
    /\ req[r].pc = "s_to_list"
    /\ \E ok \in BOOLEAN :
         IF ok
         THEN /\ req' = [req EXCEPT ![r] =
                     [@ EXCEPT !.pc = "s_first",
                               !.recent = chat_history(store, req[r].suser,
                                                       req[r].slimit, 0)]]
              /\ running' = 0
              /\ UNCHANGED <<hist, conns>>
         ELSE summary_failed(r)
    /\ UNCHANGED <<cfg, store, store0, nextConn, connLog, AgentVars, clock, dcall>>

\* Lines 200-203: first_message.
summary_first(r) ==
    /\ running = 0
    /\ req[r].pc = "s_first"
    /\ \E ok \in BOOLEAN :
         LET docs == sort_asc(find_user(store, req[r].suser)) IN
         IF ok
         THEN /\ req' = [req EXCEPT ![r] =
                     [@ EXCEPT !.pc = "s_last",
                               !.first = IF docs # <<>>
                                         THEN isoformat_z(docs[1].timestamp)
                                         ELSE None]]
              /\ running' = 0
              /\ UNCHANGED <<hist, conns>>
         ELSE summary_failed(r)
    /\ UNCHANGED <<cfg, store, store0, nextConn, connLog, AgentVars, clock, dcall>>

\* Lines 205-224: last_message, the summary, and the client closed.
summary_last(r) ==
    /\ running = 0
    /\ req[r].pc = "s_last"
    /\ \E ok \in BOOLEAN :
         LET docs == sort_desc(find_user(store, req[r].suser)) IN
         IF ok
         THEN /\ conns' = client_close(conns, req[r].conn)
              /\ summary_returned(r, [req[r] EXCEPT !.conn = 0],
                     [user_id |-> req[r].suser,
                      total_messages |-> req[r].total,
                      recent_messages |-> req[r].recent,
                      first_activity |-> req[r].first,
                      last_activity |-> IF docs # <<>>
                                        THEN isoformat_z(docs[1].timestamp)
                                        ELSE None])
              /\ UNCHANGED hist
         ELSE summary_failed(r)
    /\ UNCHANGED <<cfg, store, store0, nextConn, connLog, AgentVars, clock, dcall>>

\* One request of any shape, handled by a freshly started process.
Next ==
    \E r \in Reqs :
       \/ whatsapp_webhook_receive(r, FullEnv)
       \/ whatsapp_webhook_audio(r)
       \/ whatsapp_webhook_text(r)
       \/ whatsapp_webhook_agent(r, FullEnv)
       \/ whatsapp_webhook_send(r)
       \/ whatsapp_webhook_error_reply(r)
       \/ whatsapp_webhook_unhandled(r)
       \/ chat_api_receive(r, FullEnv)
       \/ chat_api_agent(r, FullEnv)
       \/ chat_api_return(r)
       \/ safe_db_insert(r)
       \/ db_insert(r)
       \/ get_chat_history_endpoint(r, FullEnv)
       \/ get_chat_history(r)
       \/ get_all_users_endpoint(r, FullEnv)
       \/ get_all_users_aggregate(r)
       \/ get_all_users_find_one(r)
       \/ get_all_users_count(r)
       \/ get_user_summary_endpoint(r, FullEnv)
       \/ get_user_conversation_summary(r)
       \/ summary_count(r)
       \/ summary_to_list(r)
       \/ summary_first(r)
       \/ summary_last(r)

Spec == Init /\ [][Next]_vars

\* One webhook event handled by a fresh process on an empty collection, the
\* event loop running whatever is ready and every external call (body
\* parse, media fetch, agent, store, channel provider) returning or failing
\* in the end.
LiveEnv ==
    [FullEnv EXCEPT !.webhook =
        { p \in WebhookPayloads :
            p.From \in {None, <<"whatsapp:", "212600000000">>} }]

InitLive ==
    /\ Init
    /\ store = <<>>

NextLive ==
    \E r \in Reqs :
       \/ whatsapp_webhook_receive(r, LiveEnv)
       \/ whatsapp_webhook_audio(r)
       \/ whatsapp_webhook_text(r)
       \/ whatsapp_webhook_agent(r, LiveEnv)
       \/ whatsapp_webhook_send(r)
       \/ whatsapp_webhook_error_reply(r)
       \/ whatsapp_webhook_unhandled(r)
       \/ safe_db_insert(r)
       \/ db_insert(r)

SpecLive == InitLive /\ [][NextLive]_vars /\ WF_vars(NextLive)

-----------------------------------------------------------------------------
\* The delivery functions called on their own with any text

call_send_agent_response ==
    /\ dcall.fn = "none"
    /\ \E u \in Users, m \in Texts(MaxLen),
          clientOK \in BOOLEAN, apiOK \in BOOLEAN, markupOK \in BOOLEAN :
         dcall' = Call("send_agent_response", u, m, clientOK, apiOK, markupOK,
                       send_agent_response(cfg, u, m, clientOK, apiOK, markupOK))
    /\ UNCHANGED <<cfg, req, hist, StoreVars, AgentVars, clock, running>>

call_respond_twiml_text ==
    /\ dcall.fn = "none"
    /\ \E m \in Texts(MaxLen), markupOK \in BOOLEAN :
         LET res == respond_twiml_text(m, markupOK) IN
         dcall' = Call("respond_twiml_text", <<>>, m, TRUE, TRUE, markupOK,
                       [raised |-> res.raised, sent |-> <<>>,
                        response |-> res.response])
    /\ UNCHANGED <<cfg, req, hist, StoreVars, AgentVars, clock, running>>

NextDelivery == call_send_agent_response \/ call_respond_twiml_text

SpecDelivery == Init /\ [][NextDelivery]_vars

-----------------------------------------------------------------------------
\* NumReq requests in flight on the one event loop: a request is taken up
\* whenever the loop is free, so the handlers interleave at their awaits.
\* The requests are chat turns and reads of valid shape, on a collection
\* that already holds conversations.

ConcConfigs == { c \in Configs : c.sid /\ c.token /\ c.phone /\ c.db /\ c.coll }

ConcEnv ==
    [alone |-> FALSE, webhook |-> {},
     chat |-> { p \in ChatPayloads : p.user_id = <<"212600000000">>
                                      /\ p.message = UserMessage },
     agent |-> { o \in AgentOutcomes : o.raised \/ Truthy(o.content) },
     history |-> { Query(<<"212600000000">>, 2, 0, FALSE) },
     users |-> { Query(<<>>, 1, 0, FALSE) },
     summary |-> { Query(<<"212600000001">>, 2, 0, FALSE) }]

InitConc ==
    /\ Init
    /\ cfg \in ConcConfigs
    /\ store # <<>>

NextConc ==
    \E r \in Reqs :
       \/ chat_api_receive(r, ConcEnv)
       \/ chat_api_agent(r, ConcEnv)
       \/ chat_api_return(r)
       \/ safe_db_insert(r)
       \/ db_insert(r)
       \/ get_chat_history_endpoint(r, ConcEnv)
       \/ get_chat_history(r)
       \/ get_all_users_endpoint(r, ConcEnv)
       \/ get_all_users_aggregate(r)
       \/ get_all_users_find_one(r)
       \/ get_all_users_count(r)
       \/ get_user_summary_endpoint(r, ConcEnv)
       \/ get_user_conversation_summary(r)
       \/ summary_count(r)
       \/ summary_to_list(r)
       \/ summary_first(r)
       \/ summary_last(r)

SpecConc == InitConc /\ [][NextConc]_vars

-----------------------------------------------------------------------------
\* NumReq requests in flight on the one event loop, about one user: the
\* first two of any kind (a text event on the webhook, a chat turn, one of
\* the three reads), any further one a read of the user's history.

MixedEnv(r) ==
    [alone |-> FALSE,
     webhook |-> { p \in WebhookPayloads :
                     /\ r <= 2
                     /\ p.shape = "form"
                     /\ p.From = <<"whatsapp:", "212600000000">>
                     /\ p.Body = UserMessage
                     /\ p.MediaUrl0 = None /\ p.MediaContentType0 = None },
     chat |-> IF r <= 2 THEN ConcEnv.chat ELSE {},
     agent |-> ConcEnv.agent,
     history |-> ConcEnv.history,
     users |-> IF r <= 2 THEN ConcEnv.users ELSE {},
     summary |-> IF r <= 2 THEN { Query(<<"212600000000">>, 3, 0, FALSE) }
                 ELSE {}]

NextMixed ==
    \E r \in Reqs :
       \/ whatsapp_webhook_receive(r, MixedEnv(r))
       \/ whatsapp_webhook_text(r)
       \/ whatsapp_webhook_agent(r, MixedEnv(r))
       \/ whatsapp_webhook_send(r)
       \/ whatsapp_webhook_error_reply(r)
       \/ chat_api_receive(r, MixedEnv(r))
       \/ chat_api_agent(r, MixedEnv(r))
       \/ chat_api_return(r)
       \/ safe_db_insert(r)
       \/ db_insert(r)
       \/ get_chat_history_endpoint(r, MixedEnv(r))
       \/ get_chat_history(r)
       \/ get_all_users_endpoint(r, MixedEnv(r))
       \/ get_all_users_aggregate(r)
       \/ get_all_users_find_one(r)
       \/ get_all_users_count(r)
       \/ get_user_summary_endpoint(r, MixedEnv(r))
       \/ get_user_conversation_summary(r)
       \/ summary_count(r)
       \/ summary_to_list(r)
       \/ summary_first(r)
       \/ summary_last(r)

SpecMixed == InitConc /\ [][NextMixed]_vars

-----------------------------------------------------------------------------
\* NumReq POST /api/chat calls in flight on the one event loop, each for a
\* user of its own with that user's own message, on a collection that
\* already holds conversations.

ChatUsers == << <<"212600000000">>, <<"212600000001">>, <<"212600000002">> >>
ChatUser(r) == ChatUsers[((r - 1) % Len(ChatUsers)) + 1]

ChatEnv(r) ==
    [alone |-> FALSE, webhook |-> {},
     chat |-> { [shape |-> "json", user_id |-> ChatUser(r),
                 message |-> <<"Bonjour de ">> \o ChatUser(r)] },
     agent |-> { o \in AgentOutcomes : o.raised \/ Truthy(o.content) },
     history |-> {}, users |-> {}, summary |-> {}]

InitChat ==
    /\ Init
    /\ mongo_configured(cfg) /\ cfg.sid /\ cfg.token /\ cfg.phone
    /\ store # <<>>

NextChat ==
    \E r \in Reqs :
       \/ chat_api_receive(r, ChatEnv(r))
       \/ chat_api_agent(r, ChatEnv(r))
       \/ chat_api_return(r)
       \/ safe_db_insert(r)
       \/ db_insert(r)

SpecChat == InitChat /\ [][NextChat]_vars

-----------------------------------------------------------------------------
\* The read endpoints on a collection of any content: up to MaxDocs
\* documents of the two users, inserted in any order, with timestamps that
\* may repeat and need not follow the insertion order.

RECURSIVE Stores(_)
Stores(n) ==
    IF n = 0 THEN { <<>> }
    ELSE Stores(n - 1) \cup
         { Append(s, Earlier(u, UserMessage, "user", t)) :
             s \in Stores(n - 1), u \in Users, t \in 1..MaxDocs }

ReadEnv ==
    [alone |-> TRUE, webhook |-> {}, chat |-> {}, agent |-> {},
     history |-> { Query(u, l, k, FALSE) : u \in Users, l \in 1..2, k \in 0..2 },
     users |-> { Query(<<>>, l, k, b) : l \in 1..2, k \in 0..1, b \in BOOLEAN },
     summary |-> { Query(u, l, 0, FALSE) : u \in Users, l \in 1..2 }]

InitRead ==
    /\ cfg \in { c \in Configs : mongo_configured(c) /\ c.sid /\ c.token /\ c.phone }
    /\ req = [r \in Reqs |-> IdleReq]
    /\ hist = [r \in Reqs |-> IdleHist]
    /\ store \in Stores(MaxDocs)
    /\ store0 = store
    /\ conns = {}
    /\ nextConn = 1
    /\ connLog = {}
    /\ agent = 0
    /\ built = 0
    /\ clock = MaxDocs + 1
    /\ running = 0
    /\ dcall = NoCall

NextRead ==
    \E r \in Reqs :
       \/ get_chat_history_endpoint(r, ReadEnv)
       \/ get_chat_history(r)
       \/ get_all_users_endpoint(r, ReadEnv)
       \/ get_all_users_aggregate(r)
       \/ get_all_users_find_one(r)
       \/ get_all_users_count(r)
       \/ get_user_summary_endpoint(r, ReadEnv)
       \/ get_user_conversation_summary(r)
       \/ summary_count(r)
       \/ summary_to_list(r)
       \/ summary_first(r)
       \/ summary_last(r)

SpecRead == InitRead /\ [][NextRead]_vars

-----------------------------------------------------------------------------
\* Properties

Done(r) == req[r].pc = "done"
IsWebhook(r) == req[r].kind = "webhook"
IsChat(r) == req[r].kind = "chat"

\* The event went on to the agent: a text event, or an audio event whose
\* media was fetched.
ReachedAgent(r) ==
    \/ req[r].flow = "text"
    \/ req[r].flow = "audio" /\ hist[r].fetch = "ok"

StoreUp == cfg.uri /\ cfg.db /\ cfg.coll
WritesOK(r) == StoreUp /\ hist[r].failed_writes = 0

\* The text that reaches the user of the channel from a handler's response.
ReplyText(resp) ==
    IF resp.media_type = "application/xml" THEN MarkupText(resp.content)
    ELSE resp.content

Senders(docs) == [i \in 1..Len(docs) |-> docs[i].sender]

\* C1: every POST /webhook ends with a 2xx response, whatever the body and
\* whatever fails on the way, and no exception leaves the handler.
C1_WebhookAlways2xx ==
    \A r \in Reqs :
        IsWebhook(r) =>
            /\ ~hist[r].escaped
            /\ Done(r) => req[r].resp.status \in 200..299

\* C1 witness: the body was not an object, the outermost except answered, and
\* even the markup of that answer could not be built.
C1_Witness ==
    \E r \in Reqs :
        /\ IsWebhook(r) /\ Done(r) /\ hist[r].unhandled
        /\ req[r].resp.media_type = "text/plain"
        /\ req[r].resp.status = 200

\* C2 (as claimed): an audio event whose media fetch fails, with the store
\* up and writes succeeding, invokes no agent, answers with the apology and
\* persists exactly the user's "[Audio Message]" placeholder.
C2_FetchFailurePersistsPlaceholder ==
    \A r \in Reqs :
        (IsWebhook(r) /\ Done(r) /\ hist[r].fetch = "failed" /\ WritesOK(r)) =>
            /\ hist[r].agent_runs = 0
            /\ ReplyText(req[r].resp) = FetchApology
            /\ Len(hist[r].persisted) = 1
            /\ hist[r].persisted[1].sender = "user"
            /\ hist[r].persisted[1].message = AudioPlaceholder

\* C3 (as claimed): an event that reaches the agent, with the store up and
\* writes succeeding, persists exactly a user document followed by exactly
\* one agent document, both of one session, on every path.
C3_ExactlyUserThenAgent ==
    \A r \in Reqs :
        (IsWebhook(r) /\ Done(r) /\ ReachedAgent(r) /\ WritesOK(r)) =>
            /\ Senders(hist[r].persisted) = <<"user", "agent">>
            /\ hist[r].persisted[1].session_id = hist[r].persisted[2].session_id

\* The two documents of a POST /api/chat call: the user's message, then the
\* agent's, both in the session "{user_id}_session".
ChatTurn(r, docs) ==
    /\ Senders(docs) = <<"user", "agent">>
    /\ docs[1].message = req[r].user_message
    /\ docs[1].user_id = req[r].user_id
    /\ docs[2].user_id = req[r].user_id
    /\ docs[1].session_id = req[r].user_id \o <<"_session">>
    /\ docs[2].session_id = req[r].user_id \o <<"_session">>
    /\ hist[r].agent_raised => docs[2].message = ChatApology

ChatAccepted(r) ==
    IsChat(r) /\ Done(r) /\ Truthy(req[r].user_id) /\ Truthy(req[r].user_message)

\* C4 (as claimed): with the store configured, a POST /api/chat with non-empty
\* user_id and message persists exactly these two documents.
C4_ChatPersistsTwo_Original ==
    \A r \in Reqs :
        (ChatAccepted(r) /\ StoreUp) =>
            /\ ChatTurn(r, hist[r].persisted)
            /\ store = store0 \o hist[r].persisted

\* C4 (amended): with the store configured and both writes succeeding, a
\* POST /api/chat with non-empty user_id and message persists exactly two
\* documents, user then agent, both in the session "{user_id}_session",
\* whether the agent replied or raised.
C4_ChatPersistsTwo ==
    \A r \in Reqs :
        (ChatAccepted(r) /\ WritesOK(r)) =>
            /\ ChatTurn(r, hist[r].persisted)
            /\ store = store0 \o hist[r].persisted

\* C4 witness: an accepted call whose agent raised and whose two writes
\* succeeded.
C4_Witness ==
    \E r \in Reqs :
        /\ ChatAccepted(r) /\ WritesOK(r) /\ hist[r].agent_raised
        /\ Len(store) = Len(store0) + 2

\* The apology of the flow the request is in.
ApologyOf(r) ==
    IF IsChat(r) THEN ChatApology
    ELSE IF req[r].flow = "audio" THEN AudioApology ELSE TextApology

\* The reply the caller of the request received.
ReplyOf(r) ==
    IF IsChat(r) THEN req[r].resp.json.agent_response
    ELSE ReplyText(req[r].resp)

AgentFailed(r) == Done(r) /\ hist[r].agent_raised /\ (IsChat(r) \/ IsWebhook(r))

\* The turn went on after the agent's exception: a 200 response carrying
\* the flow's apology, and that apology handed to the store as the one agent
\* message of the user's session.
Absorbed(r) ==
    LET docs == hist[r].submitted IN
    /\ ~hist[r].escaped
    /\ ~hist[r].unhandled
    /\ req[r].resp.status = 200
    /\ ReplyOf(r) = ApologyOf(r)
    /\ Senders(docs) = <<"user", "agent">>
    /\ docs[2].message = ApologyOf(r)
    /\ docs[2].session_id = docs[1].session_id
    /\ docs[2].session_id = req[r].user_id \o <<"_session">>

\* C5 (as claimed): whenever obtaining or running the agent raises, the
\* apology is persisted as the agent message of the session and is the reply.
C5_AgentErrorAbsorbed_Original ==
    \A r \in Reqs :
        AgentFailed(r) =>
            /\ Absorbed(r)
            /\ Len(hist[r].persisted) = 2
            /\ hist[r].persisted[2].message = ApologyOf(r)

\* C5 (amended): whenever obtaining or running the agent raises, the turn is
\* not aborted: the caller receives the flow's fixed apology, and that same
\* apology is handed to the store as the agent message of the session; it is
\* persisted whenever the store is configured and the writes succeed.
C5_AgentErrorAbsorbed ==
    \A r \in Reqs :
        AgentFailed(r) =>
            /\ Absorbed(r)
            /\ WritesOK(r) =>
                 /\ Len(hist[r].persisted) = 2
                 /\ hist[r].persisted[2].message = ApologyOf(r)
                 /\ hist[r].persisted[2].sender = "agent"

\* C5 witness: an audio event whose agent raised, answered and stored.
C5_Witness ==
    \E r \in Reqs :
        /\ AgentFailed(r) /\ IsWebhook(r) /\ req[r].flow = "audio"
        /\ WritesOK(r)
        /\ store[Len(store)].message = AudioApology

\* send_agent_response reached its inline markup: no provider client, no
\* sender address, or the API call raised.
ReachedInline(c) ==
    /\ c.fn = "send_agent_response"
    /\ c.clientOK \/ ~(cfg.sid /\ cfg.token)
    /\ ~(cfg.sid /\ cfg.token /\ cfg.phone /\ c.apiOK)

\* C6 (as claimed): for any user and text, send_agent_response and
\* respond_twiml_text return a response and never raise; when the inline
\* markup cannot be built, on any path that reaches it, the result is a
\* plain-text response with status 200.
C6_DeliveryNeverRaises ==
    dcall.fn # "none" =>
        /\ ~dcall.raised
        /\ dcall.response # NoResp
        /\ (~dcall.markupOK /\ (ReachedInline(dcall) \/ dcall.fn = "respond_twiml_text")) =>
              /\ dcall.response.media_type = "text/plain"
              /\ dcall.response.status = 200

HasCredentials == cfg.sid /\ cfg.token /\ cfg.phone
ViaAPI(c) == Len(c.sent) = 1
ViaBody(c) == c.response # NoResp /\ c.response.content # <<>>

\* C7 (as claimed): in send_agent_response, with credentials and sender
\* address present the API is tried first and its success gives an empty
\* body; the text is inline markup only when the configuration is absent or
\* the API call raised; and each call hands the text to the user through
\* exactly one of the two paths.
C7_ExactlyOnePath ==
    dcall.fn = "send_agent_response" =>
        /\ (HasCredentials /\ dcall.clientOK /\ dcall.apiOK) =>
              ViaAPI(dcall) /\ ~ViaBody(dcall)
        /\ ViaBody(dcall) =>
              /\ dcall.response.media_type = "application/xml"
              /\ ~HasCredentials \/ ~dcall.apiOK
        /\ ViaAPI(dcall) # ViaBody(dcall)

\* The text a delivery call emitted to the user.
Emitted(c) ==
    IF c.sent # <<>> THEN c.sent[1].body ELSE ReplyText(c.response)

\* C8 (as claimed): on every delivery path, API body, inline markup of
\* either function and the plain-text last resort, the emitted text is the
\* message with every "**" replaced by "*".
C8_EveryPathFormatted ==
    (dcall.fn # "none" /\ ~dcall.raised) =>
        Emitted(dcall) = replace_bold(dcall.message)

InInsert(r) == req[r].pc = "insert_one"

\* C9: safe_db_insert never raises to its caller.  Without the connection
\* target, the database name or the collection name no connection is opened
\* and nothing is written; a failed connection or write is swallowed and
\* leaves the store as it was: the store holds what it held at the start and
\* the documents whose writes succeeded, and the handler goes on to its
\* normal answer.
C9_SafeInsertNeverRaises ==
    /\ ~StoreUp => (nextConn = 1 /\ conns = {} /\ connLog = {} /\ store = store0)
    /\ \A r \in Reqs :
          hist[r].submitted # <<>> =>
              /\ ~hist[r].escaped /\ ~hist[r].unhandled
              /\ StoreUp =>
                   Len(hist[r].persisted) + hist[r].failed_writes
                     + (IF InInsert(r) THEN 1 ELSE 0) = Len(hist[r].submitted)
              /\ ~StoreUp => hist[r].persisted = <<>> /\ hist[r].failed_writes = 0
              /\ store = store0 \o hist[r].persisted
              /\ ChatAccepted(r) =>
                   Len(hist[r].submitted) = 2 /\ req[r].resp.status = 200

\* C9 witness: an accepted chat turn, store configured, both writes failed:
\* the store is as it was and the caller has its 200 answer.
C9_Witness ==
    \E r \in Reqs :
        /\ ChatAccepted(r) /\ StoreUp
        /\ hist[r].failed_writes = 2
        /\ store = store0
        /\ req[r].resp.status = 200

\* The request is inside a store operation, at one of its awaits.
InStoreOp(r) ==
    req[r].pc \in {"insert_one", "h_to_list", "u_aggregate", "u_find_one",
                   "u_count", "s_count", "s_to_list", "s_first", "s_last"}

\* C10: every client opened by a store operation is closed by that
\* operation before it returns, on success and on every failure: a request
\* holds an open client exactly while it is inside a store operation, the
\* open clients are those held, all are closed once every request has
\* finished, and no client serves two operations.
C10_ConnectionsScoped ==
    /\ \A r \in Reqs : InStoreOp(r) <=> req[r].conn # 0
    /\ conns = { req[r].conn : r \in { q \in Reqs : InStoreOp(q) } }
    /\ \A r, q \in Reqs : (r # q /\ InStoreOp(r)) => req[r].conn # req[q].conn
    /\ (\A r \in Reqs : req[r].pc \in {"idle", "done"}) => conns = {}
    /\ \A a, b \in connLog : a.client = b.client => a.op = b.op

\* C10 witness: every request has finished, two of them after store
\* operations of which one failed, and more clients were opened than there
\* are requests.
C10_Witness ==
    /\ \A r \in Reqs : Done(r)
    /\ \E r, q \in Reqs : r # q /\ hist[r].ops > 0 /\ hist[q].ops > 0
                          /\ hist[r].failed_reads + hist[r].failed_writes > 0
    /\ nextConn > NumReq + 1
    /\ conns = {}

\* The positions of a user's documents in the collection.
Idx(u) == { i \in 1..Len(store) : store[i].user_id = u }

\* The timestamp of a user's k-th newest document.
KthNewest(u, k) ==
    CHOOSE v \in { store[i].timestamp : i \in Idx(u) } :
        /\ Cardinality({ i \in Idx(u) : store[i].timestamp > v }) < k
        /\ k <= Cardinality({ i \in Idx(u) : store[i].timestamp >= v })

Max(a, b) == IF a > b THEN a ELSE b

\* The length of the [skip, skip + limit) window of n items.
Window(n, skip, limit) == Max(0, Min(limit, n - skip))

\* A read request that was answered with no store failure on the way.
ReadOK(r, kind) ==
    /\ req[r].kind = kind /\ Done(r)
    /\ req[r].resp.status = 200
    /\ hist[r].failed_reads = 0

\* C11: with no store failure, get_chat_history(user_id, L, S) returns the
\* reverse of the [S, S+L) slice of the user's messages ordered newest
\* first: the j-th returned message is the user's document of rank
\* S + n + 1 - j from the newest, n being the length of the window, and no
\* message of another user is returned.
C11_HistoryIsReversedWindow ==
    \A r \in Reqs :
        ReadOK(r, "history") =>
            LET q == req[r].q
                messages == req[r].resp.json.messages
                n == Window(Cardinality(Idx(q.user_id)), q.skip, q.limit)
            IN
            /\ Len(messages) = n
            /\ req[r].resp.json.total_messages = n
            /\ \A j \in 1..n :
                 /\ messages[j].user_id = q.user_id
                 /\ messages[j].timestamp =
                        isoformat_z(KthNewest(q.user_id, q.skip + n + 1 - j))
                 /\ \E i \in Idx(q.user_id) : messages[j] = serialize(store[i])

\* C11 witness: a page that starts after the newest message and stops
\* before the oldest, from a collection that also holds the other user.
C11_Witness ==
    \E r \in Reqs :
        /\ ReadOK(r, "history")
        /\ req[r].q.skip = 1 /\ req[r].q.limit = 1
        /\ Cardinality(Idx(req[r].q.user_id)) = 2
        /\ Len(store) = 3
        /\ Len(req[r].resp.json.messages) = 1
        /\ \E i, j \in Idx(req[r].q.user_id) : store[i].timestamp < store[j].timestamp

\* C12: the list returned by get_chat_history is non-decreasing in
\* timestamp for every valid limit and skip, whatever the order in which
\* the documents were inserted.
C12_HistoryNonDecreasing ==
    \A r \in Reqs :
        ReadOK(r, "history") =>
            LET messages == req[r].resp.json.messages IN
            \A j \in 1..(Len(messages) - 1) :
                messages[j].timestamp[2] <= messages[j + 1].timestamp[2]

\* C12 witness: two messages returned for a user whose newer document was
\* inserted before the older one.
C12_Witness ==
    \E r \in Reqs :
        /\ ReadOK(r, "history")
        /\ Len(req[r].resp.json.messages) = 2
        /\ req[r].resp.json.messages[1].timestamp # req[r].resp.json.messages[2].timestamp
        /\ \E i, j \in Idx(req[r].q.user_id) :
              i < j /\ store[i].timestamp > store[j].timestamp

\* The documents added to the collection since the process started.
Added == SubSeq(store, Len(store0) + 1, Len(store))

\* No other request is for the same user.
OwnUser(r) == \A q \in Reqs \ {r} : req[q].user_id # req[r].user_id

\* The call is over and both of its writes succeeded.
ChatStored(r) == ChatAccepted(r) /\ WritesOK(r)

\* C13: N POST /api/chat calls for N distinct users, interleaved in any
\* way, store configured and writes succeeding, add exactly 2N documents;
\* every added document carries the session "{user_id}_session" of its own
\* user_id, and each user has exactly one user document and one agent
\* document, with that user's own message and the reply that user received.
C13_ConcurrentChatsKeepApart ==
    /\ SubSeq(store, 1, Len(store0)) = store0
    /\ \A i \in 1..Len(Added) :
          Added[i].session_id = Added[i].user_id \o <<"_session">>
    /\ \A r \in Reqs :
          (ChatStored(r) /\ OwnUser(r)) =>
              LET docs == SelectSeq(Added, LAMBDA d : d.user_id = req[r].user_id) IN
              /\ ChatTurn(r, docs)
              /\ docs[1].message = <<"Bonjour de ">> \o req[r].user_id
              /\ docs[2].message = req[r].resp.json.agent_response
    /\ (\A r \in Reqs : ChatStored(r) /\ OwnUser(r)) => Len(Added) = 2 * NumReq

\* C13 witness: all calls are over, for distinct users, and their documents
\* are interleaved in the collection: two users' messages come before
\* either reply, and the replies differ.
C13_Witness ==
    /\ \A r \in Reqs : ChatStored(r) /\ OwnUser(r)
    /\ Added[1].sender = "user" /\ Added[2].sender = "user"
    /\ Added[1].user_id # Added[2].user_id
    /\ \E r, q \in Reqs :
          req[r].resp.json.agent_response # req[q].resp.json.agent_response

\* C14: in one process, however the first callers of get_agent interleave,
\* at most one agent instance is ever constructed, and once it exists every
\* call returns that instance and constructs no other.
C14_AgentSingleton ==
    /\ built <= 1
    /\ agent \in {0, 1}
    /\ agent = 1 <=> built = 1
    /\ \A r \in Reqs :
          /\ hist[r].instance \in {0, 1}
          /\ hist[r].agent_runs > 0 => (hist[r].instance = 1 /\ agent = 1)

\* C14 witness: two calls in flight at once have both run the agent, on the
\* one instance.
C14_Witness ==
    \E r, q \in Reqs :
        /\ r # q
        /\ hist[r].agent_runs = 1 /\ hist[q].agent_runs = 1
        /\ hist[r].instance = 1 /\ hist[q].instance = 1
        /\ ~Done(r) /\ ~Done(q)
        /\ built = 1

IsRead(r) == req[r].kind \in {"history", "users", "summary"}

\* The request's parameters are outside the ranges of its endpoint.
OutOfRange(r) ==
    \/ req[r].kind \in {"history", "users"}
         /\ (req[r].q.limit < 1 \/ req[r].q.limit > 100 \/ req[r].q.skip < 0)
    \/ req[r].kind = "summary" /\ (req[r].q.limit < 1 \/ req[r].q.limit > 50)

\* C15: a GET request with an out-of-range limit or skip is answered 400
\* at once, with no store client opened and no agent invoked, whether or
\* not the store is configured.
C15_ValidationBeforeStore ==
    \A r \in Reqs :
        (IsRead(r) /\ OutOfRange(r)) =>
            /\ Done(r)
            /\ req[r].resp.status = 400
            /\ hist[r].ops = 0 /\ hist[r].failed_reads = 0
            /\ hist[r].agent_runs = 0
            /\ conns = {} /\ nextConn = 1 /\ connLog = {}
            /\ agent = 0 /\ built = 0

\* C15 witness: limit 0 on the summary endpoint with the store not
\* configured: 400, not 503.
C15_Witness ==
    \E r \in Reqs :
        /\ req[r].kind = "summary" /\ Done(r)
        /\ req[r].q.limit = 0
        /\ ~StoreUp
        /\ req[r].resp.status = 400

\* The body supplies a non-empty user_id and a non-empty message.
Supplied(b) == b.shape = "json" /\ Truthy(b.user_id) /\ Truthy(b.message)

\* C16 (as claimed): a POST /api/chat whose body does not supply both a
\* non-empty user_id and a non-empty message (field missing or empty, body
\* unparsable, or JSON that is not an object) is answered 400, persists no
\* document and does not invoke the agent.
C16_ChatRejectsIncomplete ==
    \A r \in Reqs :
        (IsChat(r) /\ ~Supplied(req[r].body)) =>
            /\ Done(r)
            /\ req[r].resp.status = 400
            /\ hist[r].submitted = <<>>
            /\ hist[r].agent_runs = 0
            /\ store = store0

\* C17: with the store configuration absent and valid parameters, each of
\* the three read endpoints answers 503, raises nothing and opens no store
\* client.
C17_ReadsUnconfigured503 ==
    \A r \in Reqs :
        (IsRead(r) /\ ~OutOfRange(r) /\ ~StoreUp) =>
            /\ Done(r)
            /\ req[r].resp.status = 503
            /\ req[r].resp.json = NotConfigured
            /\ ~hist[r].escaped
            /\ hist[r].ops = 0 /\ hist[r].failed_reads = 0
            /\ conns = {} /\ nextConn = 1 /\ connLog = {}

\* C17 witness: the users endpoint, valid parameters, connection target and
\* database name present but no collection name: 503.
C17_Witness ==
    \E r \in Reqs :
        /\ req[r].kind = "users" /\ Done(r)
        /\ ~OutOfRange(r)
        /\ cfg.uri /\ cfg.db /\ ~cfg.coll
        /\ req[r].resp.status = 503

\* C18 (as claimed): on a store failure at any step, connection creation
\* included, the three read operations raise nothing to their caller:
\* get_chat_history and get_all_users_chat_history give an empty list and
\* get_user_conversation_summary gives a partial dict with the user_id.
C18_ReadsDegradeNeverRaise ==
    \A r \in Reqs :
        /\ ~hist[r].read_raised
        /\ (IsRead(r) /\ Done(r) /\ hist[r].failed_reads > 0) =>
              /\ req[r].resp.status = 200
              /\ req[r].kind = "history" => req[r].resp.json.messages = <<>>
              /\ (req[r].kind = "users" /\ ~req[r].q.include_summary) =>
                     req[r].resp.json.users = <<>>
              /\ req[r].kind = "summary" =>
                     req[r].resp.json = [user_id |-> req[r].q.user_id,
                                         error |-> <<"str(e)">>]

\* The distinct user_id values of the collection, and the number of them
\* that sort before u.
DistinctIds == { store[i].user_id : i \in 1..Len(store) }
IdRank(u) == CHOOSE k \in 1..Len(UserIdOrder) : UserIdOrder[k] = u
IdsBefore(u) == Cardinality({ v \in DistinctIds : IdRank(v) < IdRank(u) })

\* C19: with no store failure and no concurrent writer,
\* get_all_users_chat_history returns one entry per user_id of the
\* [skip, skip+limit) window of the distinct user_ids in ascending order,
\* in that order; each entry's latest_message is the user's message with
\* the greatest timestamp and its message_count the number of the user's
\* documents.
C19_UsersWindow ==
    \A r \in Reqs :
        ReadOK(r, "users") =>
            LET q == req[r].q
                users == req[r].resp.json.users
                n == Window(Cardinality(DistinctIds), q.skip, q.limit)
            IN
            /\ Len(users) = n
            /\ req[r].resp.json.total_users = n
            /\ \A j \in 1..n :
                 LET u == users[j].user_id IN
                 /\ u \in DistinctIds
                 /\ IdsBefore(u) = q.skip + j - 1
                 /\ users[j].latest_message.user_id = u
                 /\ users[j].latest_message.timestamp = isoformat_z(KthNewest(u, 1))
                 /\ \E i \in Idx(u) : users[j].latest_message = serialize(store[i])
                 /\ users[j].last_activity = isoformat_z(KthNewest(u, 1))
                 /\ users[j].message_count = Cardinality(Idx(u))

\* C19 witness: the second of two users is asked for; that user has two
\* documents, and the one inserted first carries the greatest timestamp.
C19_Witness ==
    \E r \in Reqs :
        /\ ReadOK(r, "users")
        /\ req[r].q.skip = 1 /\ req[r].q.limit = 1
        /\ Len(req[r].resp.json.users) = 1
        /\ req[r].resp.json.users[1].message_count = 2
        /\ store[1].user_id = req[r].resp.json.users[1].user_id
        /\ store[1].timestamp = MaxDocs

\* The summary sm of user u for a limit.
SummaryIs(sm, u, limit) ==
    LET total == Cardinality(Idx(u))
        n == Min(limit, total)
    IN
    /\ sm.user_id = u
    /\ sm.total_messages = total
    /\ Len(sm.recent_messages) = n
    /\ \A j \in 1..n :
         /\ sm.recent_messages[j].user_id = u
         /\ sm.recent_messages[j].timestamp = isoformat_z(KthNewest(u, n + 1 - j))
    /\ sm.first_activity = IF total = 0 THEN None
                           ELSE isoformat_z(KthNewest(u, total))
    /\ sm.last_activity = IF total = 0 THEN None
                          ELSE isoformat_z(KthNewest(u, 1))

\* C20: with no store failure and no concurrent writer,
\* get_user_conversation_summary returns the number of the user's
\* documents, the min(limit, total) most recent of them oldest first, and
\* the smallest and greatest timestamp of all the user's documents whatever
\* the limit, both null when the user has none; so for the summary
\* endpoint and for each summary attached by the users endpoint.
C20_SummaryCounts ==
    \A r \in Reqs :
        /\ ReadOK(r, "summary") =>
              SummaryIs(req[r].resp.json, req[r].q.user_id, req[r].q.limit)
        /\ (ReadOK(r, "users") /\ req[r].q.include_summary) =>
              \A j \in 1..Len(req[r].resp.json.users) :
                  SummaryIs(req[r].resp.json.users[j].conversation_summary,
                            req[r].resp.json.users[j].user_id, 10)

\* C20 witness: a summary with limit 1 of a user with three documents of
\* three timestamps, not inserted in timestamp order.
C20_Witness ==
    \E r \in Reqs :
        /\ ReadOK(r, "summary")
        /\ req[r].q.limit = 1
        /\ req[r].resp.json.total_messages = 3
        /\ req[r].resp.json.first_activity = isoformat_z(1)
        /\ req[r].resp.json.last_activity = isoformat_z(MaxDocs)
        /\ store[1].timestamp > store[2].timestamp

\* The request was answered with a payload for the user: a response body,
\* or a message handed to the channel provider's API.
Responded(r) ==
    /\ Done(r)
    /\ req[r].resp.status \in 200..299
    /\ req[r].resp.content # <<>> \/ hist[r].sent # <<>>

\* C21: every external call returning or failing in the end, every inbound
\* webhook request eventually reaches Responded with an outbound payload,
\* on every branch, the internal-failure branches included.
C21_WebhookEventuallyResponds ==
    \A r \in Reqs : IsWebhook(r) ~> Responded(r)

\* C21 witness: a webhook request answered after the agent raised, a store
\* write failed and the markup of the apology could not be built.
C21_Witness ==
    \E r \in Reqs :
        /\ IsWebhook(r) /\ Responded(r)
        /\ hist[r].agent_raised
        /\ hist[r].failed_writes > 0
        /\ req[r].resp.media_type = "text/plain"

\* C22: a parsed webhook event is Audio exactly when a media URL is present
\* and its content type starts with "audio" (with or without text), else
\* Text exactly when the body is non-empty, else Empty.  An Empty event gets
\* the 200 diagnostic acknowledgement with no store append, no media fetch
\* and no agent call; a Text event goes to the agent with no media fetch.
C22_Classification ==
    \A r \in Reqs :
        (IsWebhook(r) /\ req[r].pc \notin {"idle", "w_classify"}
                      /\ req[r].body.shape \in {"form", "json"}) =>
            LET url == req[r].body.MediaUrl0
                ctype == req[r].body.MediaContentType0
                text == req[r].body.Body
                class == IF /\ url \notin {None, <<>>}
                            /\ ctype # None /\ ctype # <<>> /\ ctype[1] = "audio"
                         THEN "audio"
                         ELSE IF text \notin {None, <<>>} THEN "text"
                         ELSE "empty"
            IN
            /\ req[r].flow = class
            /\ class = "empty" =>
                 /\ Done(r)
                 /\ req[r].resp = Plain(FastAPIResponse(MissingAck, "", 200))
                 /\ hist[r].submitted = <<>> /\ store = store0
                 /\ hist[r].gets = 0 /\ hist[r].fetch = "none"
                 /\ hist[r].agent_runs = 0 /\ ~hist[r].agent_raised
            /\ class = "text" =>
                 /\ hist[r].gets = 0 /\ hist[r].fetch = "none"
                 /\ Done(r) => hist[r].agent_runs = 1 \/ hist[r].agent_raised

\* C22 witness: an event with text and a picture was handled as Text.
C22_Witness ==
    \E r \in Reqs :
        /\ IsWebhook(r) /\ Done(r) /\ req[r].flow = "text"
        /\ req[r].body.shape \in {"form", "json"}
        /\ req[r].body.MediaUrl0 = MediaUrl
        /\ req[r].body.MediaContentType0 = ImageType
        /\ hist[r].agent_runs = 1

\* C23: whatever the interleaving of webhook, chat and read requests, a
\* step leaves every stored document in place with its field values and at
\* most appends new ones, and a step of one of the three read operations
\* leaves the store as it was.
C23_AppendOnly ==
    [][ /\ Len(store') >= Len(store)
        /\ SubSeq(store', 1, Len(store)) = store
        /\ store0' = store0
        /\ \A r \in Reqs :
             (req'[r] # req[r] /\ req'[r].kind \in {"history", "users", "summary"})
                => store' = store ]_vars

\* C23 witness: the store has grown by the turns of a webhook event and of
\* a chat call whose writes interleaved, and a read was served meanwhile
\* that saw some of them.
C23_Witness ==
    \E r, q \in Reqs :
        /\ r # q
        /\ req[r].kind \in {"webhook", "chat"} /\ Len(hist[r].persisted) >= 2
        /\ req[q].kind = "history" /\ Done(q) /\ req[q].resp.status = 200
        /\ Len(store) >= Len(store0) + 2
        /\ SubSeq(store, 1, Len(store0)) = store0
        /\ \E i \in 1..Len(req[q].resp.json.messages) :
               req[q].resp.json.messages[i].timestamp = isoformat_z(req[r].timestamp)

\* C24: for a non-Empty webhook event whose fetch, if any, succeeded, the
\* agent invocation completes first, then the two turns are written, the
\* user's and then the agent's, and only then is delivery attempted: no
\* write for the event before the agent invocation, no delivery before the
\* agent's turn is written.
C24_AgentThenWritesThenDelivery ==
    \A r \in Reqs :
        (IsWebhook(r) /\ ReachedAgent(r)) =>
            LET invoked == hist[r].agent_runs > 0 \/ hist[r].agent_raised
                written == hist[r].submitted
            IN
            /\ hist[r].persisted # <<>> => invoked
            /\ Len(written) >= 1 => written[1].sender = "user"
            /\ hist[r].send # "none" =>
                 /\ Len(written) >= 2
                 /\ written[2].sender = "agent"
                 /\ written[2].message = req[r].agent_message

\* C25: the audio flow issues one GET for the media and, only if that
\* returns a redirect status with a Location, exactly one more, never more
\* than two; if the last response has a status that is not a success, a
\* redirect that was not or could not be followed included, the fetch counts
\* as failed and the agent is not invoked.
C25_FetchFailsOnNonSuccess ==
    \A r \in Reqs :
        (IsWebhook(r) /\ req[r].flow = "audio") =>
            /\ hist[r].gets = (IF hist[r].hops >= 1 THEN 2 ELSE 1)
            /\ hist[r].gets <= 2
            /\ hist[r].status \notin 200..299 =>
                 /\ hist[r].fetch = "failed"
                 /\ hist[r].submitted = <<>>
                 /\ hist[r].agent_runs = 0 /\ ~hist[r].agent_raised

\* C26: a summary returned without error is consistent in itself even when
\* other requests append messages of the same user while it is computed:
\* total_messages is at least the number of recent_messages, and
\* last_activity is the timestamp of the last of recent_messages when there
\* is one.
C26_SummaryConsistent ==
    \A r \in Reqs :
        ReadOK(r, "summary") =>
            LET sm == req[r].resp.json
                n == Len(sm.recent_messages)
            IN
            /\ sm.total_messages >= n
            /\ n > 0 => sm.last_activity = sm.recent_messages[n].timestamp

\* C27: a get_agent() call that finds the handle unset attempts the
\* construction; if that raises, the handle stays unset and the request is
\* answered with its flow's apology; every later call attempts it again
\* until one succeeds, and no call after that attempts it; the handle is
\* set only by a construction that succeeded.
C27_ConstructionRetried ==
    /\ agent # 0 <=> built > 0
    /\ \A r \in Reqs :
         hist[r].agent_at > 0 =>
            /\ hist[r].attempted <=>
                 \A q \in Reqs :
                    (hist[q].agent_at > 0 /\ hist[q].agent_at < hist[r].agent_at)
                        => hist[q].instance = 0
            /\ ~hist[r].attempted => (hist[r].instance # 0 /\ hist[r].instance = agent)
            /\ hist[r].instance = 0 =>
                 /\ hist[r].agent_raised /\ hist[r].agent_runs = 0
                 /\ \A q \in Reqs : hist[q].agent_at < hist[r].agent_at
                                       => hist[q].instance = 0
                 /\ Done(r) => (req[r].resp.status = 200 /\ ReplyOf(r) = ApologyOf(r))

\* C27 witness: a webhook event met a failing construction and was answered
\* with the apology; the chat call after it constructed the agent and ran it.
C27_Witness ==
    \E r, q \in Reqs :
        /\ IsWebhook(r) /\ IsChat(q)
        /\ hist[r].agent_at > 0 /\ hist[r].agent_at < hist[q].agent_at
        /\ hist[r].attempted /\ hist[r].instance = 0
        /\ Done(r) /\ ReplyOf(r) = TextApology
        /\ hist[q].attempted /\ hist[q].instance = 1 /\ hist[q].agent_runs = 1
        /\ agent = 1 /\ built = 1

\* C28: every document persisted has a non-empty user_id: a webhook event
\* with no sender, or an empty one, is answered with the diagnostic
\* acknowledgement, appends nothing to the store and does not invoke the
\* agent, as POST /api/chat rejects an empty user_id.
C28_UserIdNeverEmpty ==
    /\ \A i \in 1..Len(store) : store[i].user_id # <<>> /\ store[i].user_id # None
    /\ \A r \in Reqs :
         (/\ IsWebhook(r) /\ Done(r)
          /\ req[r].body.shape \in {"form", "json"}
          /\ req[r].body.From \in {None, <<>>}) =>
            /\ req[r].resp = Plain(FastAPIResponse(MissingAck, "", 200))
            /\ hist[r].submitted = <<>>
            /\ hist[r].agent_runs = 0 /\ ~hist[r].agent_raised

====
